---- MODULE Spec2Model ----
(***************************************************************************)
(* The /api/calculate-route handler of backend/server.js: vehicle profile  *)
(* lookup, calculateFuel, the per-route annotation and the ranking; the    *)
(* same handler and /api/search with several requests in flight; the page  *)
(* of frontend/script.js.  Each part has its own specification, which      *)
(* leaves the variables of the other parts as they are.                    *)
(*                                                                         *)
(* JavaScript numbers are modelled as exact rationals <<n, d>> with d > 0, *)
(* kept in lowest terms; NaN is <<0, 0>>.  toFixed(k) is modelled by the   *)
(* decimal it prints (round half up, the larger n of the two candidates),  *)
(* Math.round by floor(x + 1/2).  The route and price inputs of the model  *)
(* are ones on which the exact value and the IEEE-754 double round alike.  *)
(***************************************************************************)
EXTENDS Integers, Sequences, FiniteSets, TLC

VARIABLES
    pc,          \* where the handler stands: "idle", "geocodeStart",
                 \* "geocodeEnd", "osrm" (an await each), "done"
    body,        \* req.body
    startCoords, \* the handler's startCoords
    endCoords,   \* the handler's endCoords
    osrm,        \* osrmResponse.data.routes, once the routing service answered
    res,         \* the response sent: status and JSON body, status 0 for none
    \* the server handling several /api/calculate-route requests at once
    reqs,        \* request id -> the locals of its handler invocation
    registry,    \* the contents of the VEHICLES object
    \* GET /api/search
    searches,    \* request id -> the locals of its handler invocation
    searchCache, \* the own properties of the searchCache object
    searchCalls, \* cache key -> answered requests to the geocoding service
    \* the page, frontend/script.js
    inputs,      \* start-input and dest-input: value, dataset.lat, dataset.lon
    suggestions, \* per input, the places in its suggestion list
    lookups,     \* per input, the queries of its /api/search fetches in flight
    calls,       \* invocation id -> the locals of a calculateRoutes invocation
    routesList,  \* the cards in #routes-list, in document order
    mapLayers,   \* the layers on the map, each with the weight of its style
    routeLayerMap,
    bestRouteId,
    panels,      \* what #loading, #error-msg and #results-panel show
    clicked,     \* the route clicked last since calculateRoutes was started
    overlapped   \* whether calculateRoutes was started during another one

handlerVars == <<pc, body, startCoords, endCoords, osrm, res>>
serverVars == <<reqs, registry>>
searchVars == <<searches, searchCache, searchCalls>>
pageVars == <<inputs, suggestions, lookups, calls, routesList, mapLayers,
              routeLayerMap, bestRouteId, panels, clicked, overlapped>>

vars == <<handlerVars, serverVars, searchVars, pageVars>>

------------------------------------------------------------------------------
(* Bounds of the model *)

MaxRoutes == 2

\* requests the server handles at the same time
NumRequests == 2

\* /api/search requests the server handles at the same time
NumSearches == 2

\* calculateRoutes invocations of the page
NumCalls == 2

------------------------------------------------------------------------------
(* JavaScript values *)

Undefined == [t |-> "undefined"]
Null == [t |-> "null"]
Str(s) == [t |-> "string", s |-> s]
NumV(q) == [t |-> "number", v |-> q]
Arr(s) == [t |-> "array", v |-> s]
Obj(o) == [t |-> "object", v |-> o]

NaN == <<0, 0>>
IsNaN(x) == x[2] = 0

Abs(n) == IF n < 0 THEN -n ELSE n

RECURSIVE GCD(_, _)
GCD(a, b) == IF b = 0 THEN a ELSE GCD(b, a % b)

\* a rational in lowest terms with a positive denominator
Norm(n, d) ==
    IF d = 0 THEN NaN
    ELSE LET g == GCD(Abs(n), Abs(d))
             s == IF d < 0 THEN -1 ELSE 1
         IN  <<(s * n) \div g, (s * d) \div g>>

Whole(n) == <<n, 1>>

RAdd(x, y) == IF IsNaN(x) \/ IsNaN(y) THEN NaN
              ELSE Norm(x[1] * y[2] + y[1] * x[2], x[2] * y[2])
RSub(x, y) == IF IsNaN(x) \/ IsNaN(y) THEN NaN
              ELSE Norm(x[1] * y[2] - y[1] * x[2], x[2] * y[2])
RMul(x, y) == IF IsNaN(x) \/ IsNaN(y) THEN NaN
              ELSE Norm(x[1] * y[1], x[2] * y[2])
RDiv(x, y) == IF IsNaN(x) \/ IsNaN(y) THEN NaN
              ELSE Norm(x[1] * y[2], x[2] * y[1])

\* the relational operators of JavaScript: false when an operand is NaN
RLt(x, y) == ~IsNaN(x) /\ ~IsNaN(y) /\ x[1] * y[2] < y[1] * x[2]
RGt(x, y) == RLt(y, x)
REq(x, y) == ~IsNaN(x) /\ ~IsNaN(y) /\ x[1] * y[2] = y[1] * x[2]

\* floor(x + 1/2) for x = n/d, d > 0
RoundHalfUp(n, d) == (2 * n + d) \div (2 * d)

Pow10(k) == IF k = 0 THEN 1 ELSE IF k = 1 THEN 10 ELSE 100

\* Number.prototype.toFixed(k): the decimal with k fraction digits nearest to
\* x, the larger one on a tie; "NaN" for NaN.
toFixed(x, k) ==
    IF IsNaN(x) THEN NaN
    ELSE Norm(RoundHalfUp(x[1] * Pow10(k), x[2]), Pow10(k))

\* Math.round
MathRound(x) == IF IsNaN(x) THEN NaN ELSE Whole(RoundHalfUp(x[1], x[2]))

\* ToBoolean
Truthy(v) ==
    CASE v.t = "undefined" -> FALSE
      [] v.t = "null" -> FALSE
      [] v.t = "string" -> v.s # ""
      [] v.t = "number" -> ~IsNaN(v.v) /\ v.v[1] # 0
      [] OTHER -> TRUE

\* ToNumber, for the values the model holds
ToNumber(v) ==
    CASE v.t = "number" -> v.v
      [] v.t = "null" -> Whole(0)
      [] OTHER -> NaN

\* ToString of a property key
ToKey(v) ==
    CASE v.t = "string" -> v.s
      [] v.t = "undefined" -> "undefined"
      [] v.t = "null" -> "null"
      [] OTHER -> "[object]"

------------------------------------------------------------------------------
(* Vehicle data *)

VEHICLES ==
    [motorbike |-> [baseConsumption |-> <<5, 2>>, optimalSpeed |-> <<50, 1>>,
                    dragFactor |-> <<1, 20>>],
     car       |-> [baseConsumption |-> <<7, 1>>, optimalSpeed |-> <<80, 1>>,
                    dragFactor |-> <<1, 10>>],
     truck     |-> [baseConsumption |-> <<15, 1>>, optimalSpeed |-> <<70, 1>>,
                    dragFactor |-> <<1, 5>>]]

\* VEHICLES is an object literal: a key it does not own is looked up on
\* Object.prototype, whose members are functions (or, for __proto__, an object)
ObjectPrototypeKeys ==
    {"constructor", "toString", "valueOf", "hasOwnProperty", "isPrototypeOf",
     "propertyIsEnumerable", "toLocaleString", "__proto__",
     "__defineGetter__", "__defineSetter__", "__lookupGetter__",
     "__lookupSetter__"}

\* the property read VEHICLES[key]
VehiclesGet(key) ==
    IF key \in DOMAIN VEHICLES THEN Obj(VEHICLES[key])
    ELSE IF key \in ObjectPrototypeKeys THEN [t |-> "inherited", key |-> key]
    ELSE Undefined

\* const vehicle = VEHICLES[vehicleType] || VEHICLES.car
Vehicle(vehicleType) ==
    LET v == VehiclesGet(ToKey(vehicleType))
    IN  IF Truthy(v) THEN v ELSE VehiclesGet("car")

\* vehicle.<field> in a numeric context; a value without the field gives
\* undefined, which converts to NaN
VehicleField(vehicle, f) ==
    IF vehicle.t = "object" THEN vehicle.v[f] ELSE NaN

------------------------------------------------------------------------------
(* calculateFuel *)

\* const avgSpeed = durationHr > 0 ? distanceKm / durationHr : 0
AvgSpeed(route) ==
    LET distanceKm == RDiv(Whole(route.distance), Whole(1000))
        durationHr == RDiv(Whole(route.duration), Whole(3600))
    IN  IF RGt(durationHr, Whole(0)) THEN RDiv(distanceKm, durationHr)
        ELSE Whole(0)

\* mutant: the low-speed branch subtracts the wrong way round
EfficiencyFactorSignSlip(avgSpeed, vehicle) ==
    LET optimalSpeed == VehicleField(vehicle, "optimalSpeed")
    IN  IF RLt(avgSpeed, optimalSpeed)
        THEN RAdd(Whole(1),
                  RMul(RDiv(RSub(avgSpeed, optimalSpeed), Whole(20)), <<1, 5>>))
        ELSE RAdd(Whole(1),
                  RMul(RDiv(RSub(avgSpeed, optimalSpeed), Whole(30)), <<1, 10>>))

\* the efficiencyFactor variable before it is rounded for the result
EfficiencyFactor(avgSpeed, vehicle) ==
    LET optimalSpeed == VehicleField(vehicle, "optimalSpeed")
    IN  IF RLt(avgSpeed, optimalSpeed)
        THEN RAdd(Whole(1),
                  RMul(RDiv(RSub(optimalSpeed, avgSpeed), Whole(20)), <<1, 5>>))
        ELSE RAdd(Whole(1),
                  RMul(RDiv(RSub(avgSpeed, optimalSpeed), Whole(30)), <<1, 10>>))

\* const fuelUsed = (distanceKm / 100) * vehicle.baseConsumption * efficiencyFactor
FuelUsed(route, vehicle) ==
    LET distanceKm == RDiv(Whole(route.distance), Whole(1000))
    IN  RMul(RMul(RDiv(distanceKm, Whole(100)),
                  VehicleField(vehicle, "baseConsumption")),
             EfficiencyFactor(AvgSpeed(route), vehicle))

calculateFuel(route, vehicleType) ==
    LET vehicle == Vehicle(vehicleType)
        avgSpeed == AvgSpeed(route)
        efficiencyFactor == EfficiencyFactor(avgSpeed, vehicle)
        fuelUsed == FuelUsed(route, vehicle)
    IN  [fuelUsed |-> toFixed(fuelUsed, 2),
         avgSpeed |-> MathRound(avgSpeed),
         efficiencyFactor |-> toFixed(efficiencyFactor, 2)]

------------------------------------------------------------------------------
(* Inputs of the model *)

\* JSON.stringify writes NaN as null: what the backend receives for a number
\* the frontend computed with parseFloat
JSONNumber(q) == IF IsNaN(q) THEN Null ELSE NumV(q)

\* vehicleType of the request body: the three registry keys, strings that are
\* no key of the registry, the empty string, and no vehicleType at all
VehicleTypes ==
    {Str("motorbike"), Str("car"), Str("truck"), Str("bus"), Str(""),
     Str("constructor"), Undefined}

\* fuelPrice of the request body: absent, or parseFloat of the price field
\* (NaN for an empty field) as JSON carries it
FuelPrices ==
    {Undefined} \cup
    {JSONNumber(q) : q \in {NaN, Whole(0), Whole(1), Whole(25000)}}

\* routes of the routing service: distance in metres, duration in seconds
RouteCandidates ==
    {[distance |-> 0,      duration |-> 0,    geometry |-> "g0"],
     [distance |-> 50000,  duration |-> 0,    geometry |-> "g1"],
     [distance |-> 10000,  duration |-> 1800, geometry |-> "g2"],
     [distance |-> 50000,  duration |-> 3600, geometry |-> "g3"],
     [distance |-> 70000,  duration |-> 3600, geometry |-> "g4"],
     [distance |-> 80000,  duration |-> 3600, geometry |-> "g5"],
     [distance |-> 81000,  duration |-> 3600, geometry |-> "g6"],
     [distance |-> 100000, duration |-> 3600, geometry |-> "g7"]}

RouteLists == UNION {[1..n -> RouteCandidates] : n \in 0..MaxRoutes}

\* osrmResponse.data.routes: a list, or no routes member
OsrmRoutes == {Undefined} \cup {Arr(l) : l \in RouteLists}

\* a coordinate field of the request body: null, or the text of a number
LatFields == {Null, Str("10.5")}
LonFields == {Null, Str("106.5")}

\* request bodies: every vehicleType and fuelPrice with the coordinates the
\* frontend sends for two selected suggestions, and every combination of
\* coordinate fields with one vehicleType and fuelPrice
Bodies ==
    [start : {Str("A")}, destination : {Str("B")},
     vehicleType : VehicleTypes, fuelPrice : FuelPrices,
     startLat : {Str("10.5")}, startLon : {Str("106.5")},
     destLat : {Str("10.5")}, destLon : {Str("106.5")}]
    \cup
    [start : {Str("A")}, destination : {Str("B")},
     vehicleType : {Str("car")}, fuelPrice : {NumV(Whole(25000))},
     startLat : LatFields, startLon : LonFields,
     destLat : LatFields, destLon : LonFields]

\* what the geocoding request comes to: an error, or a list of at most one
\* place (limit: 1)
GeocodeOutcomes ==
    {[ok |-> FALSE, data |-> <<>>],
     [ok |-> TRUE, data |-> <<>>],
     [ok |-> TRUE,
      data |-> <<[lat |-> "10.5", lon |-> "106.5", display_name |-> "P"]>>]}

\* parseFloat on the coordinate and price texts of the model
parseFloat(text) ==
    CASE text = "10.5" -> <<21, 2>>
      [] text = "106.5" -> <<213, 2>>
      [] text = "52.5" -> <<105, 2>>
      [] text = "13.5" -> <<27, 2>>
      [] text = "25000" -> <<25000, 1>>
      [] OTHER -> NaN

------------------------------------------------------------------------------
(* Geocoding *)

getCoordinates(outcome) ==
    IF outcome.ok /\ Len(outcome.data) > 0
    THEN Obj([lat |-> parseFloat(outcome.data[1].lat),
              lon |-> parseFloat(outcome.data[1].lon),
              display_name |-> outcome.data[1].display_name])
    ELSE Null

\* { lat: parseFloat(startLat), lon: parseFloat(startLon) }
GivenCoords(lat, lon) ==
    Obj([lat |-> parseFloat(lat.s), lon |-> parseFloat(lon.s)])

------------------------------------------------------------------------------
(* Route annotation and ranking *)

\* (fuelPrice || 0)
PriceOrZero(fuelPrice) ==
    IF Truthy(fuelPrice) THEN fuelPrice ELSE NumV(Whole(0))

\* const cost = fuelStats.fuelUsed * (fuelPrice || 0)
Cost(fuelUsed, fuelPrice) == RMul(fuelUsed, ToNumber(PriceOrZero(fuelPrice)))

\* mutant: the cost is taken from the fuel volume before it is rounded
ProcessRouteCostUnrounded(route, index, vehicleType, fuelPrice) ==
    LET fuelStats == calculateFuel(route, vehicleType)
        cost == Cost(FuelUsed(route, Vehicle(vehicleType)), fuelPrice)
    IN  [id |-> index,
         geometry |-> route.geometry,
         distanceKm |-> toFixed(RDiv(Whole(route.distance), Whole(1000)), 1),
         durationMin |-> toFixed(RDiv(Whole(route.duration), Whole(60)), 0),
         fuelUsedLiters |-> fuelStats.fuelUsed,
         fuelCost |-> toFixed(cost, 0),
         avgSpeed |-> fuelStats.avgSpeed,
         isFastest |-> (index = 0),
         score |-> fuelStats.fuelUsed]

\* the callback of osrmResponse.data.routes.map; index is 0-based.  distanceKm,
\* durationMin and fuelCost are the strings toFixed prints, held as the
\* decimals they denote.
ProcessRoute(route, index, vehicleType, fuelPrice) ==
    LET fuelStats == calculateFuel(route, vehicleType)
        cost == Cost(fuelStats.fuelUsed, fuelPrice)
    IN  [id |-> index,
         geometry |-> route.geometry,
         distanceKm |-> toFixed(RDiv(Whole(route.distance), Whole(1000)), 1),
         durationMin |-> toFixed(RDiv(Whole(route.duration), Whole(60)), 0),
         fuelUsedLiters |-> fuelStats.fuelUsed,
         fuelCost |-> toFixed(cost, 0),
         avgSpeed |-> fuelStats.avgSpeed,
         isFastest |-> (index = 0),
         score |-> fuelStats.fuelUsed]

\* mutant: isFastest is given to the routes of the shortest duration
ProcessedRoutesFastestByDuration(routes, vehicleType, fuelPrice) ==
    [i \in 1..Len(routes) |->
        [ProcessRoute(routes[i], i - 1, vehicleType, fuelPrice) EXCEPT
            !.isFastest = \A j \in 1..Len(routes) :
                              routes[i].duration <= routes[j].duration]]

\* osrmResponse.data.routes.map(...)
ProcessedRoutes(routes, vehicleType, fuelPrice) ==
    [i \in 1..Len(routes) |->
        ProcessRoute(routes[i], i - 1, vehicleType, fuelPrice)]

\* (a, b) => a.fuelUsedLiters - b.fuelUsedLiters, as sort reads it: negative,
\* positive, or zero (NaN counts as zero)
FuelCompare(a, b) ==
    LET d == RSub(a.fuelUsedLiters, b.fuelUsedLiters)
    IN  IF IsNaN(d) THEN 0 ELSE IF d[1] < 0 THEN -1 ELSE IF d[1] > 0 THEN 1 ELSE 0

\* mutant: an unstable sort, x goes before the elements it ties with
RECURSIVE InsertSortedUnstable(_, _)
InsertSortedUnstable(s, x) ==
    IF s = <<>> THEN <<x>>
    ELSE IF FuelCompare(x, s[1]) <= 0 THEN <<x>> \o s
    ELSE <<s[1]>> \o InsertSortedUnstable(Tail(s), x)

\* x placed into the sorted list s behind every element it does not precede
RECURSIVE InsertSorted(_, _)
InsertSorted(s, x) ==
    IF s = <<>> THEN <<x>>
    ELSE IF FuelCompare(x, s[1]) < 0 THEN <<x>> \o s
    ELSE <<s[1]>> \o InsertSorted(Tail(s), x)

\* [...processedRoutes].sort(...): Array.prototype.sort is stable
RECURSIVE SortedByFuel(_)
SortedByFuel(s) ==
    IF s = <<>> THEN <<>>
    ELSE InsertSorted(SortedByFuel(SubSeq(s, 1, Len(s) - 1)), s[Len(s)])

\* mutant: the length test is left out
NoRoutesOnlyMissing(routes) == ~Truthy(routes)

\* if (!osrmResponse.data.routes || osrmResponse.data.routes.length === 0)
NoRoutes(routes) == ~Truthy(routes) \/ Len(routes.v) = 0

NoResponse == [status |-> 0]
LocationsNotFound ==
    [status |-> 404,
     error |-> "Locations not found. Please try selecting from the dropdown."]
NoRouteFound == [status |-> 404, error |-> "No route found"]
InternalServerError == [status |-> 500, error |-> "Internal Server Error"]

\* mutant: processedRoutes itself is sorted, and sent sorted
RouteResponseSortedInPlace(routes, vehicleType, fuelPrice, sc, ec) ==
    IF NoRoutes(routes) THEN NoRouteFound
    ELSE LET sortedByFuel ==
                 SortedByFuel(ProcessedRoutes(routes.v, vehicleType, fuelPrice))
         IN  [status |-> 200,
              start |-> sc,
              end |-> ec,
              routes |-> sortedByFuel,
              bestFuelRouteId |-> sortedByFuel[1].id]

\* the handler from the routing service's answer on: the response it sends
RouteResponse(routes, vehicleType, fuelPrice, sc, ec) ==
    IF NoRoutes(routes) THEN NoRouteFound
    ELSE LET processedRoutes == ProcessedRoutes(routes.v, vehicleType, fuelPrice)
             sortedByFuel == SortedByFuel(processedRoutes)
         IN  IF Len(sortedByFuel) = 0
             THEN InternalServerError \* sortedByFuel[0].id throws, caught
             ELSE [status |-> 200,
                   start |-> sc,
                   end |-> ec,
                   routes |-> processedRoutes,
                   bestFuelRouteId |-> sortedByFuel[1].id]

------------------------------------------------------------------------------
(* The handler of POST /api/calculate-route, one action per stretch between  *)
(* two awaits                                                                *)

\* the locals of a handler invocation that has not started, with the calls
\* it has made and the responses it has sent so far
IdleRequest ==
    [pc |-> "idle", body |-> Undefined, startCoords |-> Undefined,
     endCoords |-> Undefined, osrm |-> Undefined, res |-> NoResponse,
     osrmCalls |-> 0, fuelCalls |-> 0, responses |-> 0]

RequestIds == 1..NumRequests

ServerIdle ==
    /\ reqs = [r \in RequestIds |-> IdleRequest]
    /\ registry = VEHICLES

\* the locals of a /api/search invocation that has not started
IdleSearch ==
    [pc |-> "idle", query |-> Undefined, cacheKey |-> <<>>, res |-> NoResponse]

SearchIds == 1..NumSearches

\* toLowerCase of a character
LowerCase(ch) ==
    CASE ch = "A" -> "a"
      [] ch = "B" -> "b"
      [] ch = "C" -> "c"
      [] OTHER -> ch

\* String.prototype.toLowerCase, a string being the sequence of its characters
toLowerCase(text) == [i \in 1..Len(text) |-> LowerCase(text[i])]

\* req.query.q: no q parameter, or a string
SearchQueries ==
    {Undefined} \cup
    {[t |-> "string", chars |-> text] :
        text \in {<<>>, <<"a", "b">>, <<"a", "b", "c">>, <<"A", "B", "C">>,
                  <<"a", "b", "d">>,
                  <<"c", "o", "n", "s", "t", "r", "u", "c", "t", "o", "r">>}}

\* the cache keys of the queries of the model
CacheKeys == {toLowerCase(q.chars) : q \in SearchQueries \ {Undefined}}

SearchIdle ==
    /\ searches = [r \in SearchIds |-> IdleSearch]
    /\ searchCache = [k \in {} |-> Undefined]
    /\ searchCalls = [k \in CacheKeys |-> 0]

\* an address input: its text, a sequence of characters, and its dataset
EmptyInput == [value |-> <<>>, lat |-> Undefined, lon |-> Undefined]

InputIds == {"start", "dest"}

\* the locals of a calculateRoutes invocation that has not started
IdleCall == [pc |-> "idle", payload |-> Undefined, data |-> NoResponse]

CallIds == 1..NumCalls

\* L.tileLayer(...).addTo(map)
TileLayer == [call |-> 0, part |-> "tile", id |-> 0]

\* the page once script.js has run, apart from the two address inputs
PageLoaded ==
    /\ suggestions = [i \in InputIds |-> <<>>]
    /\ lookups = [i \in InputIds |-> {}]
    /\ calls = [c \in CallIds |-> IdleCall]
    /\ routesList = <<>>
    /\ mapLayers = [l \in {TileLayer} |-> 0]
    /\ routeLayerMap = [k \in {} |-> Undefined]
    /\ bestRouteId = Null
    /\ panels = [loading |-> FALSE, error |-> Null, results |-> FALSE]
    /\ clicked = Null
    /\ overlapped = FALSE

PageIdle ==
    /\ inputs = [i \in InputIds |-> EmptyInput]
    /\ PageLoaded

\* the variables outside the single handler invocation
otherVars == <<serverVars, searchVars, pageVars>>

\* the parts of the system a specification leaves alone
HandlerIdle ==
    /\ pc = "idle"
    /\ body = Undefined
    /\ startCoords = Undefined
    /\ endCoords = Undefined
    /\ osrm = Undefined
    /\ res = NoResponse

Init ==
    /\ pc = "idle"
    /\ body = Undefined
    /\ startCoords = Undefined
    /\ endCoords = Undefined
    /\ osrm = Undefined
    /\ res = NoResponse
    /\ ServerIdle
    /\ SearchIdle
    /\ PageIdle

\* if (!startCoords || !endCoords) return 404; else the routing request
Validate(sc, ec) ==
    IF ~Truthy(sc) \/ ~Truthy(ec)
    THEN pc' = "done" /\ res' = LocationsNotFound
    ELSE pc' = "osrm" /\ res' = res

\* step 2 of the handler, with the start coordinates sc settled
ResolveEnd(b, sc) ==
    IF Truthy(b.destLat) /\ Truthy(b.destLon)
    THEN /\ endCoords' = GivenCoords(b.destLat, b.destLon)
         /\ Validate(sc, endCoords')
    ELSE /\ pc' = "geocodeEnd"
         /\ UNCHANGED <<endCoords, res>>

Receive(b) ==
    /\ pc = "idle"
    /\ body' = b
    /\ osrm' = osrm
    /\ IF Truthy(b.startLat) /\ Truthy(b.startLon)
       THEN /\ startCoords' = GivenCoords(b.startLat, b.startLon)
            /\ ResolveEnd(b, startCoords')
       ELSE /\ pc' = "geocodeStart"
            /\ UNCHANGED <<startCoords, endCoords, res>>
    /\ UNCHANGED otherVars

\* startCoords = await getCoordinates(start)
GeocodeStart(outcome) ==
    /\ pc = "geocodeStart"
    /\ startCoords' = getCoordinates(outcome)
    /\ ResolveEnd(body, startCoords')
    /\ UNCHANGED <<body, osrm, otherVars>>

\* endCoords = await getCoordinates(destination)
GeocodeEnd(outcome) ==
    /\ pc = "geocodeEnd"
    /\ endCoords' = getCoordinates(outcome)
    /\ Validate(startCoords, endCoords')
    /\ UNCHANGED <<body, startCoords, osrm, otherVars>>

\* the routing request is answered
OsrmReturns(routes) ==
    /\ pc = "osrm"
    /\ osrm' = routes
    /\ res' = RouteResponse(routes, body.vehicleType, body.fuelPrice,
                            startCoords, endCoords)
    /\ pc' = "done"
    /\ UNCHANGED <<body, startCoords, endCoords, otherVars>>

\* the routing request fails: axios throws, the catch block answers
OsrmThrows ==
    /\ pc = "osrm"
    /\ res' = InternalServerError
    /\ pc' = "done"
    /\ UNCHANGED <<body, startCoords, endCoords, osrm, otherVars>>

Next ==
    \/ \E b \in Bodies : Receive(b)
    \/ \E o \in GeocodeOutcomes : GeocodeStart(o)
    \/ \E o \in GeocodeOutcomes : GeocodeEnd(o)
    \/ \E r \in OsrmRoutes : OsrmReturns(r)
    \/ OsrmThrows

Spec == Init /\ [][Next]_vars

------------------------------------------------------------------------------
(* Properties *)

Answered == pc = "done" /\ res.status = 200

RouteIndexes == 1..Len(res.routes)

\* the registry's three keys, as request values
RegistryTypes == {Str("motorbike"), Str("car"), Str("truck")}

\* C1: in a 200 response bestFuelRouteId is the id of a returned route with no
\* route of smaller fuelUsedLiters, and it is the lowest id among the routes
\* that share that fuelUsedLiters.
BestFuelRouteIsFirstMinimum ==
    Answered =>
        \E i \in RouteIndexes :
            /\ res.routes[i].id = res.bestFuelRouteId
            /\ \A j \in RouteIndexes :
                   ~RLt(res.routes[j].fuelUsedLiters, res.routes[i].fuelUsedLiters)
            /\ \A j \in RouteIndexes :
                   REq(res.routes[j].fuelUsedLiters, res.routes[i].fuelUsedLiters)
                       => res.routes[j].id >= res.bestFuelRouteId

\* a response whose second route uses less fuel than its first
BestFuelRouteIsNotFirst ==
    /\ Answered
    /\ Len(res.routes) >= 2
    /\ RLt(res.routes[2].fuelUsedLiters, res.routes[1].fuelUsedLiters)
    /\ res.bestFuelRouteId = 1

\* C2: the profile resolved for the request's vehicleType has the published
\* parameters of motorbike (2.5, 50, 0.05), car (7.0, 80, 0.10) or truck
\* (15.0, 70, 0.20), and for any other vehicleType it is the car profile.
ResolveReturnsPublishedOrCar ==
    Answered =>
        LET vehicle == Vehicle(body.vehicleType)
            Published(b, o, d) ==
                /\ vehicle.t = "object"
                /\ REq(VehicleField(vehicle, "baseConsumption"), b)
                /\ REq(VehicleField(vehicle, "optimalSpeed"), o)
                /\ REq(VehicleField(vehicle, "dragFactor"), d)
        IN  CASE body.vehicleType = Str("motorbike") ->
                     Published(<<25, 10>>, <<50, 1>>, <<5, 100>>)
              [] body.vehicleType = Str("truck") ->
                     Published(<<150, 10>>, <<70, 1>>, <<20, 100>>)
              [] OTHER ->
                     Published(<<70, 10>>, <<80, 1>>, <<10, 100>>)

\* C3: in a 200 response exactly one route has isFastest, the one at
\* position 0 with id 0, whatever the durations are.
FastestIsExactlyRouteZero ==
    Answered =>
        /\ Cardinality({i \in RouteIndexes : res.routes[i].isFastest}) = 1
        /\ res.routes[1].isFastest
        /\ res.routes[1].id = 0
        /\ res.routes[1].geometry = osrm.v[1].geometry

\* a response whose route 0 takes longer than its route 1
FastestFlagOnSlowerRoute ==
    /\ Answered
    /\ Len(res.routes) >= 2
    /\ osrm.v[1].duration > osrm.v[2].duration
    /\ res.routes[1].isFastest
    /\ ~res.routes[2].isFastest

\* the route of 100000 m and 3600 s, asked for a car at 25000 per litre
IsCarExample(i) ==
    /\ body.vehicleType = Str("car")
    /\ body.fuelPrice = NumV(Whole(25000))
    /\ osrm.v[i].distance = 100000
    /\ osrm.v[i].duration = 3600

\* C4 as stated: the car example yields avgSpeed 100, fuelUsedLiters 7.47 and
\* fuelCost 186667.
CarExampleCostFromUnroundedFuel ==
    Answered =>
        \A i \in RouteIndexes :
            IsCarExample(i) =>
                /\ res.routes[i].avgSpeed = Whole(100)
                /\ res.routes[i].fuelUsedLiters = <<747, 100>>
                /\ res.routes[i].fuelCost = Whole(186667)

\* C4, amended: the car example yields avgSpeed 100, fuelUsedLiters 7.47 and
\* fuelCost 186750, the price times the rounded 7.47 litres.
CarExampleCostFromRoundedFuel ==
    Answered =>
        \A i \in RouteIndexes :
            IsCarExample(i) =>
                /\ res.routes[i].avgSpeed = Whole(100)
                /\ res.routes[i].fuelUsedLiters = <<747, 100>>
                /\ res.routes[i].fuelCost = Whole(186750)

\* a response that holds the car example
CarExampleAnswered ==
    Answered /\ \E i \in RouteIndexes : IsCarExample(i)

\* C5: when the routing service returns an empty route list the handler
\* answers 404 "No route found", not 500 and not a 200 result.
EmptyRouteListIsNotFound ==
    (pc = "done" /\ osrm = Arr(<<>>)) => res = NoRouteFound

\* the handler has answered an empty route list
EmptyRouteListAnswered ==
    pc = "done" /\ osrm = Arr(<<>>) /\ res.status = 404

IsFinite(x) == ~IsNaN(x)

\* C6: for a route of duration 0, of any distance, and any vehicleType, the
\* average speed is 0 and avgSpeed, efficiencyFactor, fuelUsedLiters and
\* fuelCost are numbers, never NaN.
ZeroDurationIsFinite ==
    Answered =>
        \A i \in RouteIndexes :
            osrm.v[i].duration = 0 =>
                LET fuelStats == calculateFuel(osrm.v[i], body.vehicleType)
                IN  /\ AvgSpeed(osrm.v[i]) = Whole(0)
                    /\ res.routes[i].avgSpeed = Whole(0)
                    /\ IsFinite(fuelStats.efficiencyFactor)
                    /\ IsFinite(res.routes[i].fuelUsedLiters)
                    /\ IsFinite(res.routes[i].fuelCost)

\* the efficiencyFactor calculateFuel returns for route i of the routing
\* service's list, and the one it holds before rounding
ReturnedFactor(i) == calculateFuel(osrm.v[i], body.vehicleType).efficiencyFactor
UnroundedFactor(i) ==
    EfficiencyFactor(AvgSpeed(osrm.v[i]), Vehicle(body.vehicleType))
OptimalSpeed == VehicleField(Vehicle(body.vehicleType), "optimalSpeed")
RLe(x, y) == RLt(x, y) \/ REq(x, y)

\* C7 as stated, of the efficiencyFactor calculateFuel returns: 1.0 at the
\* optimal speed, strictly greater at the lower of two speeds below it and at
\* the higher of two speeds above it.
ReturnedFactorStrictMinimum ==
    (Answered /\ body.vehicleType \in RegistryTypes) =>
        \A i, j \in RouteIndexes :
            LET s1 == AvgSpeed(osrm.v[i])
                s2 == AvgSpeed(osrm.v[j])
            IN  /\ REq(s1, OptimalSpeed) => ReturnedFactor(i) = Whole(1)
                /\ (RLt(s1, s2) /\ RLe(s2, OptimalSpeed))
                       => RGt(ReturnedFactor(i), ReturnedFactor(j))
                /\ (RLe(OptimalSpeed, s1) /\ RLt(s1, s2))
                       => RGt(ReturnedFactor(j), ReturnedFactor(i))

\* C7, amended: the efficiencyFactor before rounding is 1.0 at the optimal
\* speed and a strict minimum there; the returned one, rounded to two
\* decimals, is 1.0 at the optimal speed and never smaller at the lower of two
\* speeds below it nor at the higher of two speeds above it.
UnroundedFactorStrictMinimum ==
    (Answered /\ body.vehicleType \in RegistryTypes) =>
        \A i, j \in RouteIndexes :
            LET s1 == AvgSpeed(osrm.v[i])
                s2 == AvgSpeed(osrm.v[j])
            IN  /\ REq(s1, OptimalSpeed) =>
                       /\ UnroundedFactor(i) = Whole(1)
                       /\ ReturnedFactor(i) = Whole(1)
                /\ (RLt(s1, s2) /\ RLe(s2, OptimalSpeed)) =>
                       /\ RGt(UnroundedFactor(i), UnroundedFactor(j))
                       /\ RLe(ReturnedFactor(j), ReturnedFactor(i))
                /\ (RLe(OptimalSpeed, s1) /\ RLt(s1, s2)) =>
                       /\ RGt(UnroundedFactor(j), UnroundedFactor(i))
                       /\ RLe(ReturnedFactor(i), ReturnedFactor(j))

\* a response for a route at the optimal speed and a faster one whose factors
\* differ before rounding and agree after it
FactorsRoundToSameValue ==
    /\ Answered
    /\ body.vehicleType \in RegistryTypes
    /\ Len(res.routes) >= 2
    /\ REq(AvgSpeed(osrm.v[1]), OptimalSpeed)
    /\ RLt(AvgSpeed(osrm.v[1]), AvgSpeed(osrm.v[2]))
    /\ RLt(UnroundedFactor(1), UnroundedFactor(2))
    /\ ReturnedFactor(1) = ReturnedFactor(2)

\* C8: for a numeric fuelPrice p >= 0 the fuelCost of every route at price
\* 2 * p is within one unit of twice its fuelCost at price p.
CostDoublesWithPrice ==
    (Answered /\ body.fuelPrice.t = "number") =>
        \A i \in RouteIndexes :
            LET twice == NumV(RMul(Whole(2), body.fuelPrice.v))
                c1 == res.routes[i].fuelCost
                c2 == ProcessRoute(osrm.v[i], i - 1, body.vehicleType, twice).fuelCost
                diff == RSub(c2, RMul(Whole(2), c1))
            IN  /\ IsFinite(diff)
                /\ RLe(diff, Whole(1))
                /\ RLe(Whole(-1), diff)

\* C9: with fuelPrice zero, null or absent the request for a non-empty route
\* list is answered 200 and every route has fuelCost 0.
NoPriceMeansZeroCost ==
    (/\ pc = "done"
     /\ body.fuelPrice \in {Undefined, Null, NumV(Whole(0))}
     /\ osrm.t = "array"
     /\ Len(osrm.v) > 0) =>
        /\ res.status = 200
        /\ \A i \in RouteIndexes :
               /\ res.routes[i].fuelCost = Whole(0)
               /\ res.routes[i].id = i - 1

\* C10: a 200 response lists the routes in the order of the routing service:
\* as many routes, the route at position i with id i and with the geometry
\* of the service's route i.
RoutesKeepServiceOrder ==
    Answered =>
        /\ Len(res.routes) = Len(osrm.v)
        /\ \A i \in RouteIndexes :
               /\ res.routes[i].id = i - 1
               /\ res.routes[i].geometry = osrm.v[i].geometry

\* a response whose fuel ranking differs from the order it lists the routes in
RankingDiffersFromOrder ==
    /\ Answered
    /\ Len(res.routes) >= 2
    /\ res.bestFuelRouteId # 0
    /\ osrm.v[1].geometry # osrm.v[2].geometry
    /\ res.routes[1].geometry = osrm.v[1].geometry

------------------------------------------------------------------------------
(* The server with several /api/calculate-route requests in flight: every    *)
(* invocation of the handler has its own locals; an action is the stretch of *)
(* one invocation between two awaits                                         *)

\* request bodies: two vehicleType and fuelPrice pairs, with the coordinates
\* of both places given or with none given
ServerBodies ==
    {[start |-> Str("A"), destination |-> Str("B"),
      vehicleType |-> p[1], fuelPrice |-> p[2],
      startLat |-> c[1], startLon |-> c[2],
      destLat |-> c[1], destLon |-> c[2]] :
        p \in {<<Str("car"), NumV(Whole(1))>>,
               <<Str("motorbike"), NumV(Whole(25000))>>},
        c \in {<<Str("10.5"), Str("106.5")>>, <<Null, Null>>}}

\* answers of the routing service
ServerOsrmRoutes ==
    {Arr(<<>>),
     Arr(<<[distance |-> 50000, duration |-> 3600, geometry |-> "g3"]>>),
     Arr(<<[distance |-> 100000, duration |-> 3600, geometry |-> "g7"],
           [distance |-> 50000, duration |-> 3600, geometry |-> "g3"]>>)}

\* mutant: the validation tests the start coordinates only
ServerValidateStartOnly(h) ==
    IF ~Truthy(h.startCoords)
    THEN [h EXCEPT !.pc = "done", !.res = LocationsNotFound,
                   !.responses = @ + 1]
    ELSE [h EXCEPT !.pc = "osrm", !.osrmCalls = @ + 1]

\* if (!startCoords || !endCoords) return 404; else the routing request
ServerValidate(h) ==
    IF ~Truthy(h.startCoords) \/ ~Truthy(h.endCoords)
    THEN [h EXCEPT !.pc = "done", !.res = LocationsNotFound,
                   !.responses = @ + 1]
    ELSE [h EXCEPT !.pc = "osrm", !.osrmCalls = @ + 1]

\* 2. GET END COORDINATES
ServerResolveEnd(h) ==
    IF Truthy(h.body.destLat) /\ Truthy(h.body.destLon)
    THEN ServerValidate(
             [h EXCEPT !.endCoords = GivenCoords(h.body.destLat, h.body.destLon)])
    ELSE [h EXCEPT !.pc = "geocodeEnd"]

\* 1. GET START COORDINATES
ServerResolveStart(h) ==
    IF Truthy(h.body.startLat) /\ Truthy(h.body.startLon)
    THEN ServerResolveEnd(
             [h EXCEPT !.startCoords =
                           GivenCoords(h.body.startLat, h.body.startLon)])
    ELSE [h EXCEPT !.pc = "geocodeStart"]

\* mutant: vehicleType and fuelPrice are kept in variables of the module, so
\* they are those of the request received last
ServerProcessSharedLocals(h, routes) ==
    LET last == CHOOSE r \in RequestIds :
                    /\ reqs[r].pc # "idle"
                    /\ \A q \in RequestIds : q > r => reqs[q].pc = "idle"
    IN  [h EXCEPT !.pc = "done",
                  !.osrm = routes,
                  !.res = RouteResponse(routes, reqs[last].body.vehicleType,
                                        reqs[last].body.fuelPrice,
                                        h.startCoords, h.endCoords),
                  !.fuelCalls = IF NoRoutes(routes) THEN 0 ELSE Len(routes.v),
                  !.responses = @ + 1]

\* the handler from the routing service's answer on
ServerProcess(h, routes) ==
    [h EXCEPT !.pc = "done",
              !.osrm = routes,
              !.res = RouteResponse(routes, h.body.vehicleType,
                                    h.body.fuelPrice,
                                    h.startCoords, h.endCoords),
              !.fuelCalls = IF NoRoutes(routes) THEN 0 ELSE Len(routes.v),
              !.responses = @ + 1]

ServerReceive(r, b) ==
    /\ reqs[r].pc = "idle"
    /\ reqs' = [reqs EXCEPT ![r] = ServerResolveStart([@ EXCEPT !.body = b])]
    /\ UNCHANGED <<registry, handlerVars, searchVars, pageVars>>

ServerGeocodeStart(r, outcome) ==
    /\ reqs[r].pc = "geocodeStart"
    /\ reqs' = [reqs EXCEPT ![r] =
                   ServerResolveEnd(
                       [@ EXCEPT !.startCoords = getCoordinates(outcome)])]
    /\ UNCHANGED <<registry, handlerVars, searchVars, pageVars>>

ServerGeocodeEnd(r, outcome) ==
    /\ reqs[r].pc = "geocodeEnd"
    /\ reqs' = [reqs EXCEPT ![r] =
                   ServerValidate(
                       [@ EXCEPT !.endCoords = getCoordinates(outcome)])]
    /\ UNCHANGED <<registry, handlerVars, searchVars, pageVars>>

ServerOsrmReturns(r, routes) ==
    /\ reqs[r].pc = "osrm"
    /\ reqs' = [reqs EXCEPT ![r] = ServerProcess(@, routes)]
    /\ UNCHANGED <<registry, handlerVars, searchVars, pageVars>>

ServerOsrmThrows(r) ==
    /\ reqs[r].pc = "osrm"
    /\ reqs' = [reqs EXCEPT ![r] =
                   [@ EXCEPT !.pc = "done", !.res = InternalServerError,
                             !.responses = @ + 1]]
    /\ UNCHANGED <<registry, handlerVars, searchVars, pageVars>>

ServerInit == HandlerIdle /\ ServerIdle /\ SearchIdle /\ PageIdle

ServerNext ==
    \/ \E r \in RequestIds, b \in ServerBodies : ServerReceive(r, b)
    \/ \E r \in RequestIds, o \in GeocodeOutcomes : ServerGeocodeStart(r, o)
    \/ \E r \in RequestIds, o \in GeocodeOutcomes : ServerGeocodeEnd(r, o)
    \/ \E r \in RequestIds, l \in ServerOsrmRoutes : ServerOsrmReturns(r, l)
    \/ \E r \in RequestIds : ServerOsrmThrows(r)

SpecServer == ServerInit /\ [][ServerNext]_vars

ServerAnswered(r) == reqs[r].pc = "done" /\ reqs[r].res.status = 200

\* C11: with requests handled concurrently the VEHICLES registry keeps its
\* contents, every 200 response is computed from the vehicleType, fuelPrice
\* and route list of its own request, and two requests with the same
\* vehicleType, fuelPrice and route list get the same routes and
\* bestFuelRouteId.
ResponsesDependOnOwnRequest ==
    /\ registry = VEHICLES
    /\ \A r \in RequestIds :
           ServerAnswered(r) =>
               /\ Len(reqs[r].res.routes) = Len(reqs[r].osrm.v)
               /\ \A i \in 1..Len(reqs[r].res.routes) :
                      LET route == reqs[r].res.routes[i]
                          fuelStats == calculateFuel(reqs[r].osrm.v[i],
                                                     reqs[r].body.vehicleType)
                      IN  /\ route.geometry = reqs[r].osrm.v[i].geometry
                          /\ route.fuelUsedLiters = fuelStats.fuelUsed
                          /\ route.avgSpeed = fuelStats.avgSpeed
                          /\ route.fuelCost =
                                 toFixed(Cost(fuelStats.fuelUsed,
                                              reqs[r].body.fuelPrice), 0)
    /\ \A r, q \in RequestIds :
           (/\ ServerAnswered(r)
            /\ ServerAnswered(q)
            /\ reqs[r].body.vehicleType = reqs[q].body.vehicleType
            /\ reqs[r].body.fuelPrice = reqs[q].body.fuelPrice
            /\ reqs[r].osrm = reqs[q].osrm) =>
               /\ reqs[r].res.routes = reqs[q].res.routes
               /\ reqs[r].res.bestFuelRouteId = reqs[q].res.bestFuelRouteId

\* a request answered while a later one, for another vehicle, awaits its routes
AnsweredWhileOtherInFlight ==
    /\ ServerAnswered(1)
    /\ reqs[2].pc = "osrm"
    /\ reqs[2].body.vehicleType # reqs[1].body.vehicleType
    /\ reqs[2].body.fuelPrice # reqs[1].body.fuelPrice

ServerUnresolved(r) ==
    ~Truthy(reqs[r].startCoords) \/ ~Truthy(reqs[r].endCoords)

\* C13: a request whose start or destination did not resolve to coordinates
\* is answered with 404, once, without a call to the routing service and
\* without a fuel estimate; no request is answered more than once, and the
\* routing service is called only with both coordinate pairs present.
UnresolvedPlaceIsNotFoundWithoutRouting ==
    \A r \in RequestIds :
        /\ reqs[r].responses = (IF reqs[r].pc = "done" THEN 1 ELSE 0)
        /\ (reqs[r].pc = "done" /\ ServerUnresolved(r)) =>
               /\ reqs[r].res = LocationsNotFound
               /\ reqs[r].osrmCalls = 0
               /\ reqs[r].fuelCalls = 0
        /\ reqs[r].osrmCalls > 0 =>
               /\ Truthy(reqs[r].startCoords)
               /\ Truthy(reqs[r].endCoords)
        /\ reqs[r].fuelCalls > 0 => reqs[r].osrmCalls = 1

\* the start was not found, the destination was, and the answer is 404
StartNotFoundDestinationFound ==
    /\ reqs[1].pc = "done"
    /\ ~Truthy(reqs[1].startCoords)
    /\ Truthy(reqs[1].endCoords)
    /\ reqs[1].res.status = 404
    /\ reqs[2].fuelCalls > 0

------------------------------------------------------------------------------
(* GET /api/search with several requests in flight                           *)

\* what the geocoding service answers: a failure, or a list of places
NominatimOutcomes ==
    {[ok |-> FALSE, data |-> <<>>],
     [ok |-> TRUE, data |-> <<>>],
     [ok |-> TRUE,
      data |-> <<[place_id |-> 1, display_name |-> "P",
                  lat |-> "10.5", lon |-> "106.5"]>>]}

\* response.data.map((item) => ({ display_name, lat, lon }))
SearchResults(data) ==
    Arr([i \in 1..Len(data) |->
            [display_name |-> data[i].display_name,
             lat |-> data[i].lat,
             lon |-> data[i].lon]])

\* the one key of the model that searchCache, an object literal, inherits
ConstructorKey == <<"c", "o", "n", "s", "t", "r", "u", "c", "t", "o", "r">>

\* the property read searchCache[cacheKey]
SearchCacheGet(cacheKey) ==
    IF cacheKey \in DOMAIN searchCache THEN searchCache[cacheKey]
    ELSE IF cacheKey = ConstructorKey
         THEN [t |-> "inherited", key |-> "constructor"]
    ELSE Undefined

\* searchCache[cacheKey] = results
SearchCachePut(cacheKey, results) ==
    [k \in DOMAIN searchCache \cup {cacheKey} |->
        IF k = cacheKey THEN results ELSE searchCache[k]]

\* !query || query.length < 3
QueryTooShort(query) == query.t = "undefined" \/ Len(query.chars) < 3

\* the handler up to its await: the length test and the cache lookup
SearchReceive(r, query) ==
    /\ searches[r].pc = "idle"
    /\ searches' = [searches EXCEPT ![r] =
           IF QueryTooShort(query)
           THEN [@ EXCEPT !.pc = "done", !.query = query,
                          !.res = [status |-> 200, body |-> Arr(<<>>)]]
           ELSE LET cacheKey == toLowerCase(query.chars)
                IN  IF Truthy(SearchCacheGet(cacheKey))
                    THEN [@ EXCEPT !.pc = "done", !.query = query,
                                   !.cacheKey = cacheKey,
                                   !.res = [status |-> 200,
                                            body |-> SearchCacheGet(cacheKey)]]
                    ELSE [@ EXCEPT !.pc = "nominatim", !.query = query,
                                   !.cacheKey = cacheKey]]
    /\ UNCHANGED <<searchCache, searchCalls, handlerVars, serverVars, pageVars>>

\* await axios.get(NOMINATIM_API, ...) resolved: map, save to cache, answer
SearchNominatimReturns(r, data) ==
    /\ searches[r].pc = "nominatim"
    /\ LET results == SearchResults(data)
       IN  /\ searchCache' = SearchCachePut(searches[r].cacheKey, results)
           /\ searches' = [searches EXCEPT ![r] =
                  [@ EXCEPT !.pc = "done",
                            !.res = [status |-> 200, body |-> results]]]
    /\ searchCalls' = [searchCalls EXCEPT ![searches[r].cacheKey] = @ + 1]
    /\ UNCHANGED <<handlerVars, serverVars, pageVars>>

\* await axios.get(NOMINATIM_API, ...) rejected: the catch block answers
SearchNominatimThrows(r) ==
    /\ searches[r].pc = "nominatim"
    /\ searches' = [searches EXCEPT ![r] =
           [@ EXCEPT !.pc = "done",
                     !.res = [status |-> 500, error |-> "Search failed"]]]
    /\ UNCHANGED <<searchCache, searchCalls, handlerVars, serverVars, pageVars>>

SearchInit == HandlerIdle /\ ServerIdle /\ SearchIdle /\ PageIdle

SearchNext ==
    \/ \E r \in SearchIds, q \in SearchQueries : SearchReceive(r, q)
    \/ \E r \in SearchIds, o \in {x \in NominatimOutcomes : x.ok} :
           SearchNominatimReturns(r, o.data)
    \/ \E r \in SearchIds : SearchNominatimThrows(r)

SpecSearch == SearchInit /\ [][SearchNext]_vars

\* C12: for every cache key, that is every query compared without regard to
\* case, at most one request to the geocoding service has been answered.
AtMostOneGeocodingCallPerQuery ==
    \A k \in CacheKeys : searchCalls[k] <= 1

------------------------------------------------------------------------------
(* The page, frontend/script.js.  A string the user sees or types is the     *)
(* sequence of its characters.  An action is an event handler, or the        *)
(* stretch of calculateRoutes between two awaits; await fetch and await      *)
(* response.json(), between which nothing is written, are one step.          *)

\* places the search endpoint knows
Saigon ==
    [display_name |-> <<"S", "a", "i", "g", "o", "n">>,
     lat |-> "10.5", lon |-> "106.5"]
Berlin ==
    [display_name |-> <<"B", "e", "r", "l", "i", "n">>,
     lat |-> "52.5", lon |-> "13.5"]
Places == {Saigon, Berlin}

\* texts the user types
TypedTexts == {<<"S", "a">>, <<"S", "a", "i">>, <<"B", "e", "r">>}

\* the input the user types into
EditedInputs == {"start"}

\* what /api/search answers for a query: the places whose name starts with
\* it, or nothing (an answer of status 500 renders like an empty list)
SearchAnswers(query) ==
    {<<>>} \cup
    {<<place>> : place \in {x \in Places :
        /\ Len(query) <= Len(x.display_name)
        /\ SubSeq(x.display_name, 1, Len(query)) = query}}

\* an input after the click on a suggestion
ChosenInput(place) ==
    [value |-> place.display_name, lat |-> Str(place.lat), lon |-> Str(place.lon)]

\* the values of #vehicle-select and #fuel-price
vehicleSelect == "car"
fuelPriceInput == "25000"

\* x || null
OrNull(x) == IF Truthy(x) THEN x ELSE Null

\* the payload of calculateRoutes as JSON.stringify writes it
Payload ==
    [start |-> Str(inputs["start"].value),
     destination |-> Str(inputs["dest"].value),
     vehicleType |-> Str(vehicleSelect),
     fuelPrice |-> JSONNumber(parseFloat(fuelPriceInput)),
     startLat |-> OrNull(inputs["start"].lat),
     startLon |-> OrNull(inputs["start"].lon),
     destLat |-> OrNull(inputs["dest"].lat),
     destLon |-> OrNull(inputs["dest"].lon)]

\* route lists behind the answers of /api/calculate-route
PageRouteLists ==
    {<<[distance |-> 100000, duration |-> 3600, geometry |-> "g7"],
       [distance |-> 80000, duration |-> 3600, geometry |-> "g5"],
       [distance |-> 50000, duration |-> 3600, geometry |-> "g3"]>>,
     <<[distance |-> 50000, duration |-> 3600, geometry |-> "g3"],
       [distance |-> 100000, duration |-> 3600, geometry |-> "g7"]>>}

\* the answers of /api/calculate-route the page receives
PageResponses ==
    {RouteResponse(Arr(l), Str(vehicleSelect),
                   JSONNumber(parseFloat(fuelPriceInput)),
                   GivenCoords(Str(Saigon.lat), Str(Saigon.lon)),
                   GivenCoords(Str(Berlin.lat), Str(Berlin.lon))) :
         l \in PageRouteLists}
    \cup {LocationsNotFound}

\* a route id as a JavaScript number
JSNum(n) == NumV(Whole(n))

\* String(n) of a route id, used as property key and as dataset.id
RECURSIVE IdKey(_)
IdKey(n) == IF n < 10 THEN <<n>> ELSE IdKey(n \div 10) \o <<n % 10>>

\* parseInt of a string of decimal digits
RECURSIVE parseInt(_)
parseInt(digits) ==
    IF Len(digits) = 1 THEN digits[1]
    ELSE 10 * parseInt(SubSeq(digits, 1, Len(digits) - 1)) + digits[Len(digits)]

\* the layers renderMap adds for the answer of invocation c
RouteLayer(c, id) == [call |-> c, part |-> "route", id |-> id]
StartMarker(c) == [call |-> c, part |-> "startMarker", id |-> 0]
EndMarker(c) == [call |-> c, part |-> "endMarker", id |-> 0]

\* the layers routeLayerMap holds
TrackedLayers(rlm) == {rlm[k].layer : k \in DOMAIN rlm}

\* clearMap: the layers left on the map
clearMap(layers, rlm) ==
    LET untracked == DOMAIN layers \ TrackedLayers(rlm)
        kept == {l \in untracked :
                    l.part \notin {"route", "startMarker", "endMarker"}}
    IN  [l \in kept |-> layers[l]]

\* renderMap: the layers on the map, each route line with the weight a path
\* has by default
renderMapLayers(layers, data, c) ==
    LET added == {StartMarker(c), EndMarker(c)} \cup
                 {RouteLayer(c, data.routes[i].id) :
                     i \in 1..Len(data.routes)}
    IN  [l \in DOMAIN layers \cup added |->
            IF l \in added
            THEN (IF l.part = "route" THEN 3 ELSE 0)
            ELSE layers[l]]

\* renderMap: routeLayerMap[route.id] = { layer, isEco }
renderMapTracked(rlm, data, c) ==
    LET keys == {IdKey(data.routes[i].id) : i \in 1..Len(data.routes)}
    IN  [k \in DOMAIN rlm \cup keys |->
            IF k \in keys
            THEN [layer |-> RouteLayer(c, parseInt(k)),
                  isEco |-> (parseInt(k) = data.bestFuelRouteId)]
            ELSE rlm[k]]

\* the comparator of renderSidebar
SidebarCompare(a, b, best) ==
    IF a.id = best THEN -1 ELSE IF b.id = best THEN 1 ELSE 0

\* x placed into the sorted list s behind every element it does not precede
RECURSIVE SidebarInsert(_, _, _)
SidebarInsert(s, x, best) ==
    IF s = <<>> THEN <<x>>
    ELSE IF SidebarCompare(x, s[1], best) < 0 THEN <<x>> \o s
    ELSE <<s[1]>> \o SidebarInsert(Tail(s), x, best)

\* mutant: the routes are ranked by the fuel they use
SortedRoutesByFuel(routes, best) == SortedByFuel(routes)

\* data.routes.sort(...): Array.prototype.sort is stable
RECURSIVE SortedRoutes(_, _)
SortedRoutes(routes, best) ==
    IF routes = <<>> THEN <<>>
    ELSE SidebarInsert(SortedRoutes(SubSeq(routes, 1, Len(routes) - 1), best),
                       routes[Len(routes)], best)

\* renderSidebar: the cards appended for the sorted routes
renderSidebarCards(sortedRoutes, best, c) ==
    [i \in 1..Len(sortedRoutes) |->
        [id |-> IdKey(sortedRoutes[i].id),
         route |-> sortedRoutes[i].id,
         call |-> c,
         eco |-> (sortedRoutes[i].id = best),
         fastest |-> sortedRoutes[i].isFastest,
         active |-> FALSE]]

\* highlightRoute, 1. Update Map Styles
HighlightLayers(selectedId, rlm, layers) ==
    [l \in DOMAIN layers |->
        IF l \in TrackedLayers(rlm)
        THEN LET id == CHOOSE k \in DOMAIN rlm : rlm[k].layer = l
             IN  IF parseInt(id) = selectedId THEN 8 ELSE 6
        ELSE layers[l]]

\* mutant: the other cards keep the class they have
HighlightCardsAddOnly(selectedId, cards) ==
    [i \in 1..Len(cards) |->
        [cards[i] EXCEPT !.active = @ \/ (parseInt(cards[i].id) = selectedId)]]

\* highlightRoute, 2. Update Sidebar Styles
HighlightCards(selectedId, cards) ==
    [i \in 1..Len(cards) |->
        [cards[i] EXCEPT !.active = (parseInt(cards[i].id) = selectedId)]]

\* the input event of an address input; the handler runs once the typing
\* has paused, with the text the input then holds
InputTyped(i, text) ==
    /\ inputs' = [inputs EXCEPT ![i].value = text]
    /\ IF Len(text) < 3
       THEN /\ suggestions' = [suggestions EXCEPT ![i] = <<>>]
            /\ UNCHANGED lookups
       ELSE /\ lookups' = [lookups EXCEPT ![i] = @ \cup {text}]
            /\ UNCHANGED suggestions
    /\ UNCHANGED <<calls, routesList, mapLayers, routeLayerMap, bestRouteId,
                   panels, clicked, overlapped>>
    /\ UNCHANGED <<handlerVars, serverVars, searchVars>>

\* the /api/search fetch for a query is answered: renderSuggestions
SuggestionsArrive(i, query, results) ==
    /\ query \in lookups[i]
    /\ lookups' = [lookups EXCEPT ![i] = @ \ {query}]
    /\ suggestions' = [suggestions EXCEPT ![i] = results]
    /\ UNCHANGED <<inputs, calls, routesList, mapLayers, routeLayerMap,
                   bestRouteId, panels, clicked, overlapped>>
    /\ UNCHANGED <<handlerVars, serverVars, searchVars>>

\* the /api/search fetch fails: the catch block logs the error
SuggestionsFail(i, query) ==
    /\ query \in lookups[i]
    /\ lookups' = [lookups EXCEPT ![i] = @ \ {query}]
    /\ UNCHANGED <<inputs, suggestions, calls, routesList, mapLayers,
                   routeLayerMap, bestRouteId, panels, clicked, overlapped>>
    /\ UNCHANGED <<handlerVars, serverVars, searchVars>>

\* item.onclick of the k-th suggestion of an input
SuggestionClicked(i, k) ==
    /\ k \in 1..Len(suggestions[i])
    /\ inputs' = [inputs EXCEPT ![i] = ChosenInput(suggestions[i][k])]
    /\ suggestions' = [suggestions EXCEPT ![i] = <<>>]
    /\ UNCHANGED <<lookups, calls, routesList, mapLayers, routeLayerMap,
                   bestRouteId, panels, clicked, overlapped>>
    /\ UNCHANGED <<handlerVars, serverVars, searchVars>>

\* calculateRoutes up to await fetch; invocations are numbered as they start
CalculateRoutes(c) ==
    /\ calls[c].pc = "idle"
    /\ \A d \in CallIds : d < c => calls[d].pc # "idle"
    /\ panels' = [loading |-> TRUE, error |-> Null, results |-> FALSE]
    /\ routesList' = <<>>
    /\ mapLayers' = clearMap(mapLayers, routeLayerMap)
    /\ routeLayerMap' = [k \in {} |-> Undefined]
    /\ calls' = [calls EXCEPT ![c] = [@ EXCEPT !.pc = "fetch",
                                               !.payload = Payload]]
    /\ overlapped' = (overlapped \/ \E d \in CallIds : calls[d].pc = "fetch")
    /\ clicked' = Null
    /\ UNCHANGED <<inputs, suggestions, lookups, bestRouteId>>
    /\ UNCHANGED <<handlerVars, serverVars, searchVars>>

\* calculateRoutes from the answer on: renderMap, renderSidebar and
\* highlightRoute, or the error message
ResponseArrives(c, data) ==
    /\ calls[c].pc = "fetch"
    /\ IF data.status = 200
       THEN LET sortedRoutes == SortedRoutes(data.routes, data.bestFuelRouteId)
                rlm == renderMapTracked(routeLayerMap, data, c)
                cards == routesList \o
                         renderSidebarCards(sortedRoutes,
                                            data.bestFuelRouteId, c)
            IN  /\ bestRouteId' = JSNum(data.bestFuelRouteId)
                /\ routeLayerMap' = rlm
                /\ mapLayers' = HighlightLayers(data.bestFuelRouteId, rlm,
                                    renderMapLayers(mapLayers, data, c))
                /\ routesList' = HighlightCards(data.bestFuelRouteId, cards)
                /\ panels' = [panels EXCEPT !.loading = FALSE,
                                            !.results = TRUE]
                /\ calls' = [calls EXCEPT ![c] =
                       [@ EXCEPT !.pc = "done",
                                 !.data = [data EXCEPT !.routes = sortedRoutes]]]
       ELSE /\ panels' = [panels EXCEPT !.loading = FALSE,
                                        !.error = Str(data.error)]
            /\ calls' = [calls EXCEPT ![c] = [@ EXCEPT !.pc = "done",
                                                       !.data = data]]
            /\ UNCHANGED <<bestRouteId, routeLayerMap, mapLayers, routesList>>
    /\ UNCHANGED <<inputs, suggestions, lookups, clicked, overlapped>>
    /\ UNCHANGED <<handlerVars, serverVars, searchVars>>

\* await fetch rejected: the catch block shows the message of the error
FetchFails(c) ==
    /\ calls[c].pc = "fetch"
    /\ panels' = [panels EXCEPT !.loading = FALSE,
                                !.error = Str("Failed to fetch")]
    /\ calls' = [calls EXCEPT ![c] = [@ EXCEPT !.pc = "done"]]
    /\ UNCHANGED <<inputs, suggestions, lookups, routesList, mapLayers,
                   routeLayerMap, bestRouteId, clicked, overlapped>>
    /\ UNCHANGED <<handlerVars, serverVars, searchVars>>

\* card.onclick of the k-th card
CardClicked(k) ==
    /\ k \in 1..Len(routesList)
    /\ mapLayers' = HighlightLayers(routesList[k].route, routeLayerMap,
                                    mapLayers)
    /\ routesList' = HighlightCards(routesList[k].route, routesList)
    /\ clicked' = JSNum(routesList[k].route)
    /\ UNCHANGED <<inputs, suggestions, lookups, calls, routeLayerMap,
                   bestRouteId, panels, overlapped>>
    /\ UNCHANGED <<handlerVars, serverVars, searchVars>>

\* the click on a route line of the map
LineClicked(l) ==
    /\ l \in DOMAIN mapLayers
    /\ l.part = "route"
    /\ mapLayers' = HighlightLayers(l.id, routeLayerMap, mapLayers)
    /\ routesList' = HighlightCards(l.id, routesList)
    /\ clicked' = JSNum(l.id)
    /\ UNCHANGED <<inputs, suggestions, lookups, calls, routeLayerMap,
                   bestRouteId, panels, overlapped>>
    /\ UNCHANGED <<handlerVars, serverVars, searchVars>>

------------------------------------------------------------------------------
(* The page from its load to the requests it sends *)

InputsInit == HandlerIdle /\ ServerIdle /\ SearchIdle /\ PageIdle

InputsNext ==
    \/ \E i \in EditedInputs, text \in TypedTexts : InputTyped(i, text)
    \/ \E i \in EditedInputs, q \in TypedTexts :
           \E results \in SearchAnswers(q) : SuggestionsArrive(i, q, results)
    \/ \E i \in EditedInputs, q \in TypedTexts : SuggestionsFail(i, q)
    \/ \E i \in EditedInputs : \E k \in 1..Len(suggestions[i]) :
           SuggestionClicked(i, k)
    \/ \E c \in CallIds : CalculateRoutes(c)

SpecInputs == InputsInit /\ [][InputsNext]_vars

------------------------------------------------------------------------------
(* The page with both places chosen: invocations of calculateRoutes, their   *)
(* answers and the clicks on cards and route lines                           *)

FrontInit ==
    /\ HandlerIdle /\ ServerIdle /\ SearchIdle
    /\ inputs = [i \in InputIds |->
                    IF i = "start" THEN ChosenInput(Saigon)
                    ELSE ChosenInput(Berlin)]
    /\ PageLoaded

FrontNext ==
    \/ \E c \in CallIds : CalculateRoutes(c)
    \/ \E c \in CallIds, data \in PageResponses : ResponseArrives(c, data)
    \/ \E c \in CallIds : FetchFails(c)
    \/ \E k \in 1..Len(routesList) : CardClicked(k)
    \/ \E l \in DOMAIN mapLayers : LineClicked(l)

SpecFront == FrontInit /\ [][FrontNext]_vars

------------------------------------------------------------------------------
(* Properties of the page *)

\* invocation c has rendered an answer of status 200
Rendered(c) == calls[c].pc = "done" /\ calls[c].data.status = 200

\* the route ids of the cards that invocation c appended, in document order
CardIdsOf(c) ==
    LET Mine(card) == card.call = c
        mine == SelectSeq(routesList, Mine)
    IN  [i \in 1..Len(mine) |-> mine[i].route]

\* C14: the cards renderSidebar appends for an answer start with the card of
\* the route whose id is bestFuelRouteId; the cards behind it are those of all
\* the other routes in ascending order of id, the order of the answer.
SidebarIsEcoFirst ==
    \A c \in CallIds :
        (Rendered(c) /\ CardIdsOf(c) # <<>>) =>
            LET ids == CardIdsOf(c)
            IN  /\ Len(ids) = Len(calls[c].data.routes)
                /\ ids[1] = calls[c].data.bestFuelRouteId
                /\ \A i, j \in 2..Len(ids) : i < j => ids[i] < ids[j]

\* the most fuel efficient of three routes is the last one of the answer
EcoRouteMovedToFront ==
    \E c \in CallIds :
        /\ Rendered(c)
        /\ calls[c].data.bestFuelRouteId = 2
        /\ CardIdsOf(c) = <<2, 0, 1>>

\* the coordinates the backend takes for the start of a payload, if it takes
\* them from the payload
StartFromPayload(payload) ==
    ServerResolveStart([IdleRequest EXCEPT !.body = payload])

\* C15: when the backend takes the start coordinates of a request from its
\* payload, they are the coordinates of the place that the start text names.
CoordinatesBelongToInputText ==
    \A c \in CallIds :
        calls[c].pc # "idle" =>
            LET h == StartFromPayload(calls[c].payload)
            IN  h.pc # "geocodeStart" =>
                    \E place \in Places :
                        /\ place.display_name = h.body.start.s
                        /\ h.startCoords =
                               GivenCoords(Str(place.lat), Str(place.lon))

\* C16: when no invocation of calculateRoutes awaits its answer, the cards of
\* the sidebar are those of one answer, one per route and no two for the same
\* id, and every route line on the map is held by routeLayerMap.
SidebarAndMapShowOneAnswer ==
    (\A c \in CallIds : calls[c].pc # "fetch") =>
        /\ \/ routesList = <<>>
           \/ \E c \in CallIds :
                  /\ Rendered(c)
                  /\ Len(routesList) = Len(calls[c].data.routes)
                  /\ \A i \in 1..Len(routesList) : routesList[i].call = c
        /\ \A i, j \in 1..Len(routesList) :
               i # j => routesList[i].id # routesList[j].id
        /\ \A l \in DOMAIN mapLayers :
               l.part = "route" => l \in TrackedLayers(routeLayerMap)

\* the invocation started last has rendered an answer of status 200
LastCallRendered ==
    \E c \in CallIds :
        /\ Rendered(c)
        /\ \A d \in CallIds : d > c => calls[d].pc = "idle"

\* the route that is to be highlighted
ExpectedRoute == IF clicked = Null THEN bestRouteId ELSE clicked

\* C17: if no invocation of calculateRoutes was started during another one
\* and the last one rendered its answer, exactly one card is active and
\* exactly one layer has the selected style, both of the route clicked last,
\* or of bestFuelRouteId as long as none was clicked.
ExactlyOneRouteHighlighted ==
    (~overlapped /\ LastCallRendered) =>
        LET activeCards == {i \in 1..Len(routesList) : routesList[i].active}
            selectedLayers == {l \in DOMAIN mapLayers : mapLayers[l] = 8}
        IN  /\ Cardinality(activeCards) = 1
            /\ Cardinality(selectedLayers) = 1
            /\ \A i \in activeCards : JSNum(routesList[i].route) = ExpectedRoute
            /\ \A l \in selectedLayers :
                   l.part = "route" /\ JSNum(l.id) = ExpectedRoute
            /\ \A c \in CallIds :
                   (Rendered(c) /\ \A d \in CallIds : d > c => calls[d].pc = "idle")
                       => bestRouteId = JSNum(calls[c].data.bestFuelRouteId)

\* a route other than the most fuel efficient one was clicked
OtherRouteClicked ==
    /\ ~overlapped
    /\ LastCallRendered
    /\ clicked # Null
    /\ clicked # bestRouteId
    /\ \E i \in 1..Len(routesList) : routesList[i].active

====
